---- MODULE Spec2Model ----
(***************************************************************************)
(* NexusCollectionBatch: the run orchestrators (nexus_browser_first.main   *)
(* and auto_que.main with run_download_stage) and the per-target download  *)
(* resolver process_mod, with the download-event listener, the downloads   *)
(* directory and the install hand-off.                                     *)
(***************************************************************************)
EXTENDS Integers, Sequences, FiniteSets, TLC

\* ------------------------------------------------------------------ bounds
\* Most download events the browser fires in a run.
MaxEvents == 1

\* ------------------------------------------------------- program constants
NAV_ATTEMPTS_Thrice == 2 + 1

\* for _ in range(2): navigation attempts per target.
NAV_ATTEMPTS == 2
\* for i in range(1, 10000): collision suffixes unique_path scans.
UNIQUE_LIMIT == 10000
\* return 130 / return 1 / return 0
EXIT_INTERRUPTED == 130
EXIT_FATAL == 1
EXIT_OK == 0

None == "None"

\* ------------------------------------------------------------------- URLs
\* A URL <scheme>://<host>/<domain>/<seg>/<id>[/][?[tab=files&]file_id=<fid>]
\* kept by its parts, each as written. A number text is its count of leading
\* zeros and its value; digits is FALSE for a text that is no number.
Num(zeros, value) == [digits |-> TRUE, zeros |-> zeros, value |-> value]
NotANumber == [digits |-> FALSE, zeros |-> 0, value |-> 0]
\* No file_id in the query.
NoFid == [digits |-> FALSE, zeros |-> 0, value |-> -1]

Url(scheme, host, domain, seg, id, fid, tab, slash) ==
    [scheme |-> scheme, host |-> host, domain |-> domain, seg |-> seg, id |-> id,
     fid |-> fid, tab |-> tab, slash |-> slash]

\* str.lower() on the texts that occur.
Lower(text) ==
    CASE text = "NexusMods.com" -> "nexusmods.com"
      [] text = "Game" -> "game"
      [] text = "Mods" -> "mods"
      [] OTHER -> text

\* normalize_mod_target_url returned None.
NoUrl == [scheme |-> "none"]

\* MOD_PATH_RE, case-insensitive: /<domain>/mods/<digits>
MOD_PATH_RE(u) == Lower(u.seg) = "mods" /\ u.id.digits

\* int(file_id_values[0]) when the query has a file_id that is a number.
QueryFileId(u) == IF u.fid.digits THEN u.fid.value ELSE 0

\* normalize_mod_target_url: None for another scheme, another host or another
\* path; else https://www.nexusmods.com + the path as written, without a
\* trailing slash, + ?tab=files&file_id=<int> when the query's file_id is a
\* positive number.
normalize_mod_target_url(u) ==
    IF u.scheme \notin {"http", "https"} THEN NoUrl
    ELSE IF Lower(u.host) \notin {"www.nexusmods.com", "nexusmods.com"} THEN NoUrl
    ELSE IF ~MOD_PATH_RE(u) THEN NoUrl
    ELSE Url("https", "www.nexusmods.com", u.domain, u.seg, u.id,
             IF QueryFileId(u) > 0 THEN Num(0, QueryFileId(u)) ELSE NoFid,
             QueryFileId(u) > 0, FALSE)

\* parse_mod_target returned (None, None, None); a missing file_id is 0, which
\* no parsed file_id is (the canonical form carries positive ones only).
NoTarget == [domain |-> "", mod_id |-> 0, file_id |-> 0]

\* parse_mod_target: (domain, mod_id, file_id) read from the canonical form:
\* parts[1] must be "mods" as written, the domain is lowered, the ids are
\* int() of their texts.
parse_mod_target(url) ==
    LET normalized == normalize_mod_target_url(url)
    IN IF normalized = NoUrl THEN NoTarget
       ELSE IF normalized.seg # "mods" THEN NoTarget
       ELSE [domain |-> Lower(normalized.domain),
             mod_id |-> normalized.id.value,
             file_id |-> IF normalized.fid.digits THEN normalized.fid.value ELSE 0]

dedupe_links_KeepsRepeats(links) ==
    LET accepted == SelectSeq(links, LAMBDA u : normalize_mod_target_url(u) # NoUrl)
    IN [i \in 1..Len(accepted) |-> normalize_mod_target_url(accepted[i])]

\* The loop of dedupe_links from position i on, out being the list so far
\* (seen is the set of its entries).
RECURSIVE DedupeLoop(_, _, _)
DedupeLoop(links, i, out) ==
    IF i > Len(links) THEN out
    ELSE LET canonical == normalize_mod_target_url(links[i])
         IN IF canonical = NoUrl THEN DedupeLoop(links, i + 1, out)
            ELSE IF \E j \in 1..Len(out) : out[j] = canonical
            THEN DedupeLoop(links, i + 1, out)
            ELSE DedupeLoop(links, i + 1, Append(out, canonical))

\* dedupe_links
dedupe_links(links) == DedupeLoop(links, 1, <<>>)

\* ---------------------------------------------------------------- targets
\* The canonical mod target URL of mod m of domain "game", with file f when
\* f > 0 (what links_from_collection_payload builds).
Target(m, f) ==
    Url("https", "www.nexusmods.com", "game", "mods", Num(0, m),
        IF f > 0 THEN Num(0, f) ELSE NoFid, f > 0, FALSE)
Targets == {Target(10, 0), Target(20, 5)}
\* The longest queue: the links of a queue are pairwise distinct.
MaxQueue == Cardinality(Targets)

\* Sequences of pairwise distinct targets of length at most n (what
\* dedupe_links returns).
RECURSIVE DistinctSeqs(_, _)
DistinctSeqs(S, n) ==
    IF n = 0 THEN {<<>>}
    ELSE {<<>>} \cup UNION {{<<x>> \o s : s \in DistinctSeqs(S \ {x}, n - 1)} : x \in S}

\* ------------------------------------------------------------- file names
\* A file name "<stem>[ (n)]<ext><tmp>": n = 0 means no collision suffix,
\* tmp is a trailing in-progress extension ("" when there is none).
Name(stem, n, ext, tmp) == [stem |-> stem, n |-> n, ext |-> ext, tmp |-> tmp]

TEMP_DOWNLOAD_EXTENSIONS == {".crdownload", ".part", ".tmp"}
ARCHIVE_EXTENSIONS == {".zip", ".7z", ".rar"}

\* Path(name).suffix: the last extension of the name.
Suffix(name) == IF name.tmp # "" THEN name.tmp ELSE name.ext

is_temp_download_CrdownloadOnly(name) == Suffix(name) = ".crdownload"

\* is_temp_download
is_temp_download(name) == Suffix(name) \in TEMP_DOWNLOAD_EXTENSIONS

is_good_archive_name_Any(name) == TRUE

\* is_good_archive_name: the name ends with .zip, .7z or .rar; every other
\* name (the UUID-shaped ones included) is not good.
is_good_archive_name(name) == Suffix(name) \in ARCHIVE_EXTENSIONS

\* unique_path: the path itself when free, else the first free
\* "<stem> (i)<suffix>" for i in 1..9999; NoPath stands for the RuntimeError.
NoPath == Name("", 0, "", "")

RECURSIVE UniqueFrom(_, _, _)
UniqueFrom(name, i, existing) ==
    IF i >= UNIQUE_LIMIT THEN NoPath
    ELSE IF [name EXCEPT !.n = i] \notin existing THEN [name EXCEPT !.n = i]
    ELSE UniqueFrom(name, i + 1, existing)

unique_path(name, existing) ==
    IF name \notin existing THEN name ELSE UniqueFrom(name, 1, existing)

\* direct_download_to_folder_with_context, the file name: names without a
\* suffix get ".zip".
DirectFileName(name) == IF Suffix(name) = "" THEN [name EXCEPT !.ext = ".zip"] ELSE name

\* target.with_suffix(target.suffix + ".part")
PartName(name) == [name EXCEPT !.tmp = ".part"]

\* direct_download_to_folder_with_context on a directory holding existing,
\* the server naming the file nm: the target is unique_path of the name, the
\* body is written to <target>.part (opened "wb", whatever is there) and
\* renamed to the target. It gives the target, the directory afterwards and
\* the files that were there before and were written over.
DirectSave(nm, existing) ==
    LET target == unique_path(DirectFileName(nm), existing)
        temp == PartName(target)
    IN [target |-> target,
        files |-> (existing \ {temp}) \cup {target},
        overwritten |-> {temp, target} \cap existing]

\* What the response gives shutil.copyfileobj: the whole body; an end of data
\* before Content-Length was reached (the connection was closed early:
\* response.read(n) returns b"" and the copy ends as if the body were over);
\* or an exception in the middle of the body.
Streams == {"whole", "cut_short", "raises"}

\* The directory in the course of direct_download_to_folder_with_context:
\* after temp.open("wb"), after copyfileobj and, unless that raised, after
\* temp.replace(target); each as its files and those of them that hold a
\* part of the body only.
DirectTransfer(nm, existing, stream) ==
    LET target == unique_path(DirectFileName(nm), existing)
        temp == PartName(target)
        opened == [files |-> existing \cup {temp}, partial |-> {temp}]
        copied == [files |-> opened.files,
                   partial |-> IF stream = "whole" THEN {} ELSE {temp}]
        renamed == [files |-> (copied.files \ {temp}) \cup {target},
                    partial |-> IF temp \in copied.partial THEN {target} ELSE {}]
    IN [target |-> target,
        raised |-> stream = "raises",
        steps |-> IF stream = "raises" THEN <<opened, copied>>
                  ELSE <<opened, copied, renamed>>]

\* on_download's save on a directory holding existing, the browser suggesting
\* name: download.save_as(unique_path(downloads_dir / name)).
ListenerSave(name, existing) ==
    LET target == unique_path(name, existing)
    IN [target |-> target,
        files |-> existing \cup {target},
        overwritten |-> {target} \cap existing]

\* The directories of a run, as path components: downloads_dir, the install
\* target and log_dir.
RunDirs ==
    [downloads |-> <<"home", "Downloads">>, install |-> <<"home", "mods">>,
     logs |-> <<"home", "logs">>]

\* The directory part of the file name a Content-Disposition header gives
\* (filename_from_response_headers returns the header's text as it is): none,
\* a relative one that climbs out, an absolute one.
HeaderPaths ==
    {[absolute |-> FALSE, dirs |-> <<>>],
     [absolute |-> FALSE, dirs |-> <<"..", "mods">>],
     [absolute |-> TRUE, dirs |-> <<"home", "logs">>]}

\* The directory the components rel lead to from base (".." is the parent).
RECURSIVE ResolveFrom(_, _)
ResolveFrom(base, rel) ==
    IF rel = <<>> THEN base
    ELSE IF Head(rel) = ".."
    THEN ResolveFrom(IF base = <<>> THEN base ELSE SubSeq(base, 1, Len(base) - 1), Tail(rel))
    ELSE ResolveFrom(Append(base, Head(rel)), Tail(rel))

\* download_dir / file_name: the directory the target and its .part file are
\* in; an absolute file name replaces download_dir.
TargetDirectory(download_dir, header) ==
    ResolveFrom(IF header.absolute THEN <<>> ELSE download_dir, header.dirs)

\* Names the download server gives a direct transfer.
DirectNames == {Name("mod", 0, ".zip", ""), Name("mod", 0, ".exe", "")}
\* Names the browser suggests in a download event.
EventNames == {Name("mod", 0, ".zip", ""), Name("0a1b", 0, "", "")}
\* Names of files the browser writes to the downloads directory by itself.
BrowserNames == {Name("mod", 0, ".zip", "")}

\* ----------------------------------------------------------------- reasons
\* A reason string is head ++ str(arg): head is the literal text up to and
\* including the first ":", cut into tokens so that one literal is a prefix of
\* another exactly when its token sequence is; arg is what is formatted in.
NoArg == [kind |-> "none"]
PathArg(name) == [kind |-> "path", dir |-> "downloads", name |-> name]
NameArg(name) == [kind |-> "name", name |-> name]
ErrArg(e) == [kind |-> "error", error |-> e]

Reason(head, arg) == [head |-> head, arg |-> arg]

R_direct(name) == Reason(<<"direct_download", ":">>, PathArg(name))
R_direct_insecure(name) == Reason(<<"direct_download", "_insecure_ssl", ":">>, PathArg(name))
R_direct_suspicious(name) == Reason(<<"direct_download", "_suspicious", ":">>, NameArg(name))
R_navigation_error(e) == Reason(<<"navigation_error", ":">>, ErrArg(e))
R_navigation_only == Reason(<<"navigation_only">>, NoArg)
R_manual_button_not_found == Reason(<<"manual_button_not_found">>, NoArg)
R_confirmation_not_found == Reason(<<"download_confirmation_button_not_found">>, NoArg)
R_download_saved(name) == Reason(<<"download_save", "d", ":">>, PathArg(name))
R_suspicious_filename(name) == Reason(<<"suspicious_download_filename", ":">>, NameArg(name))
R_file_detected(name) == Reason(<<"download_file_detected", ":">>, NameArg(name))
R_save_error(e) == Reason(<<"download_save", "_error", ":">>, ErrArg(e))
R_signal_not_detected == Reason(<<"download_signal_not_detected_in_time">>, NoArg)
R_manual_and_slow_clicked == Reason(<<"manual_and_slow_clicked">>, NoArg)

\* str.startswith on the tokens of a reason's literal text.
StartsWith(head, prefix) ==
    /\ Len(head) >= Len(prefix)
    /\ SubSeq(head, 1, Len(prefix)) = prefix

\* find_download_path: the path after one of the three prefixes, else None
\* (NoArg).
DOWNLOAD_PATH_PREFIXES ==
    {<<"download_save", "d", ":">>, <<"direct_download", ":">>,
     <<"direct_download", "_insecure_ssl", ":">>}

find_download_path(reason) ==
    IF \E p \in DOWNLOAD_PATH_PREFIXES : StartsWith(reason.head, p)
    THEN reason.arg
    ELSE NoArg

\* ItemResult(index, mod_url, status, reason)
ItemResult(i, url, status, reason) ==
    [index |-> i, mod_url |-> url, status |-> status, reason |-> reason]

STATUSES == {"ok", "partial", "fail", "fallback_needed", "dry_run"}

\* A sequence without its repeated elements, first occurrences kept in order
\* (seen / unique_downloads in install_downloaded_archives).
RECURSIVE Dedupe(_)
Dedupe(s) ==
    IF s = <<>> THEN <<>>
    ELSE LET rest == Dedupe(SubSeq(s, 1, Len(s) - 1))
             x == s[Len(s)]
         IN IF \E i \in 1..Len(rest) : rest[i] = x THEN rest ELSE Append(rest, x)

Truncate_KeepsLast(ls, max_mods) ==
    IF max_mods > 0 /\ Len(ls) > max_mods
    THEN SubSeq(ls, Len(ls) - max_mods + 1, Len(ls)) ELSE ls

\* links[: max_mods] when max_mods > 0
Truncate(ls, max_mods) ==
    IF max_mods > 0 /\ Len(ls) > max_mods THEN SubSeq(ls, 1, max_mods) ELSE ls

\* is_ssl_verify_error: the exception text names a certificate failure.
SSL_ERROR == "certificate verify failed"
OTHER_ERROR == "timed out"
\* str(e) of Playwright's TimeoutError for page.goto of the collection page
\* (timeout=90000) and of a mod page (timeout=60000).
COLLECTION_TIMEOUT == "Timeout 90000ms exceeded."
NAV_TIMEOUT == "Timeout 60000ms exceeded."
\* The texts of exceeded per-call timeouts.
TIMEOUT_ERRORS == {OTHER_ERROR, COLLECTION_TIMEOUT, NAV_TIMEOUT}
is_ssl_verify_error_Any(e) == TRUE

is_ssl_verify_error(e) == e = SSL_ERROR

\* ------------------------------------------------------------------ state
VARIABLES
    entry,            \* which main() runs: "nexus_browser_first" or "auto_que"
    settings,         \* args / StageSettings: dry_run, verify_downloads, skip_install, max_mods
    cookie_header,    \* "" when the session has no cookies
    game_id,          \* 0 when extract_game_id found none
    links,            \* the queue
    pc,               \* position of the single thread of control
    idx,              \* enumerate(links, start=1)
    run_data,         \* the run report
    downloaded_files, \* run_download_stage's list of saved paths
    install_args,     \* the Install Stager call: <<>> before it, then <<unique_downloads>>
    json_log,         \* the persisted JSON document: <<>> before the first write
    txt_log,          \* the persisted text summary: <<>> before the first write
    exit_code,        \* what main() returns, -1 while it runs
    pm,               \* locals of the running process_mod
    ret,              \* the ItemResult process_mod returned
    listeners,        \* download listeners registered on the page
    files,            \* names of the files in the downloads directory
    growing,          \* those whose size still changes between samples
    browser_file,     \* the one file the browser itself writes in a run
    hist,             \* history of the run, for stating the properties
    call,             \* a function examined on its own: its name and arguments
    result            \* what that call returned

vars == <<call, result, entry, settings, cookie_header, game_id, links, pc, idx, run_data,
          downloaded_files, install_args, json_log, txt_log, exit_code, pm, ret,
          listeners, files, growing, browser_file, hist>>

NBF == "nexus_browser_first"
AQ == "auto_que"

\* Locals of process_mod at its entry; polled tells whether the completion
\* loop has run an iteration (its deadline cannot pass before the first one).
PmInit ==
    [nav_count |-> 0, nav_error |-> None, baseline |-> {},
     seen_downloads |-> <<>>, saved_downloads |-> <<>>, download_errors |-> <<>>,
     manual_retry_used |-> FALSE, polled |-> FALSE]

\* No ItemResult (process_mod has not returned).
NoItem == [index |-> 0, status |-> "none"]

\* What happened while the current target was resolved (the outcomes of the
\* direct attempts, the controls clicked, the listeners registered, the events
\* retried) and, for the run, the download events fired, the targets started,
\* the results appended, the inter-item delays taken, the extraction strategy
\* that gave the queue (None before the extraction) with the links it returned
\* and the links network interception returned, the iterations of the
\* completion loop that found a suspicious event name and no saved file,
\* the target during whose resolution the user's interrupt was raised
\* (0: none) and the kind of the run-level error.
HistInit ==
    [direct_log |-> <<>>, clicks |-> {}, registered |-> 0, events |-> 0,
     retries |-> 0, nav_attempts |-> 0, started |-> 0, appended |-> 0, intr_at |-> 0, fatal_kind |-> None,
     delays |-> 0, strategy |-> None, extracted |-> <<>>, net |-> <<>>, observed |-> 0]

\* The history of a target's resolution, cleared for the next one.
HistNextItem(h) ==
    [h EXCEPT !.direct_log = <<>>, !.clicks = {}, !.registered = 0,
               !.retries = 0, !.nav_attempts = 0, !.observed = 0]

NoBrowserFile == [state |-> "none"]

\* run_data as created by main().
RunDataInit(s) ==
    [dry_run |-> s.dry_run, verify_downloads |-> s.verify_downloads,
     queue_count |-> 0, results |-> <<>>, dom_fallback |-> FALSE,
     zero_queue_artifacts |-> {},
     install_summary |-> [present |-> FALSE, installed |-> 0, failed |-> 0],
     interrupted |-> FALSE, fatal_error |-> None]

Settings(dry_run, verify_downloads, skip_install, max_mods) ==
    [dry_run |-> dry_run, verify_downloads |-> verify_downloads,
     skip_install |-> skip_install, max_mods |-> max_mods]

\* The argument combinations explored: every combination of --dry-run and the
\* verification switch for both entry points, for auto_que one run with
\* --skip-install and one with --max-mods 1, and for nexus_browser_first a
\* dry run with --max-mods 1.
SettingsChoices(e) ==
    {Settings(d, v, FALSE, 0) : d \in BOOLEAN, v \in BOOLEAN}
        \cup (IF e = AQ
              THEN {Settings(FALSE, TRUE, TRUE, 0), Settings(FALSE, TRUE, FALSE, 1)}
              ELSE {Settings(TRUE, FALSE, FALSE, 1)})

\* No function is examined on its own (a whole run is).
NoCall == [fn |-> "none"]
NoResult == [fn |-> "none"]

\* The state main() starts the try block in.
RunInit ==
    /\ cookie_header = ""
    /\ game_id = 0
    /\ links = <<>>
    /\ pc = "extract"
    /\ idx = 0
    /\ run_data = RunDataInit(settings)
    /\ downloaded_files = <<>>
    /\ install_args = <<>>
    /\ json_log = <<>>
    /\ txt_log = <<>>
    /\ exit_code = -1
    /\ pm = PmInit
    /\ ret = NoItem
    /\ listeners = 0
    /\ files = {}
    /\ growing = {}
    /\ browser_file = NoBrowserFile
    /\ hist = HistInit

Init ==
    /\ entry \in {NBF, AQ}
    /\ settings \in SettingsChoices(entry)
    /\ RunInit
    /\ call = NoCall
    /\ result = NoResult

\* --------------------------------------------------------------- the logs
Count_Everything(results, st) == Len(results)

Count(results, st) == Cardinality({i \in DOMAIN results : results[i].status = st})

\* build_summary_lines (nexus_browser_first) / the summary list of
\* write_run_logs (auto_que): the fixed fields of the text log.
SummaryLines(e, rd) ==
    [queue_count |-> rd.queue_count,
     ok |-> Count(rd.results, "ok"),
     partial |-> Count(rd.results, "partial"),
     fallback_needed |-> Count(rd.results, "fallback_needed"),
     fail |-> Count(rd.results, "fail"),
     dry_run |-> Count(rd.results, "dry_run"),
     install_ok |-> IF e = AQ THEN rd.install_summary.installed ELSE 0,
     install_fail |-> IF e = AQ THEN rd.install_summary.failed ELSE 0]

\* json.dumps(run_data): the document the JSON log holds.
JsonDocument(rd) == rd

\* Python truth of run_data.get("fatal_error"): set and not the empty string.
Truthy(text) == text # None /\ text # ""

\* The value main() returns.
ReturnCode(e, rd) ==
    IF e = NBF
    THEN IF rd.interrupted THEN EXIT_INTERRUPTED
         ELSE IF Truthy(rd.fatal_error) THEN EXIT_FATAL ELSE EXIT_OK
    ELSE IF Truthy(rd.fatal_error) THEN EXIT_FATAL ELSE EXIT_OK

INTERRUPTED_TEXT == "Interrupted by user (Ctrl+C)"

OnKeyboardInterrupt_NoMarker(e, rd) == rd

\* except KeyboardInterrupt: what the handler records in run_data.
OnKeyboardInterrupt(e, rd) ==
    IF e = NBF
    THEN [rd EXCEPT !.interrupted = TRUE, !.fatal_error = INTERRUPTED_TEXT]
    ELSE [rd EXCEPT !.fatal_error = INTERRUPTED_TEXT]

OnException_DropsResults(rd, text) == [rd EXCEPT !.results = <<>>, !.fatal_error = text]

\* except Exception as e: run_data["fatal_error"] = str(e)
OnException(rd, text) == [rd EXCEPT !.fatal_error = text]

\* ------------------------------------------------------------ positions
\* Positions inside process_mod.
PmPcs == {"direct", "retry", "nav", "cookie", "slow1", "manual", "slow2", "poll"}
\* Positions inside main()'s try block.
TryPcs(e) ==
    PmPcs \cup {"extract", "loop", "append", "delay"} \cup (IF e = AQ THEN {"install"} ELSE {})

\* --------------------------------------------------------- the orchestrator
\* if verify_downloads and cookie_header and game_id and file_id and mod_id
\* and domain_name, the last three being parse_mod_target(mod_url).
DirectConditionOf(url, verify_downloads, cookies, gid) ==
    LET t == parse_mod_target(url)
    IN /\ verify_downloads
       /\ cookies # ""
       /\ gid # 0
       /\ t.file_id # 0
       /\ t.mod_id # 0
       /\ t.domain # ""

\* The direct path is tried when all of these are known (process_mod, the
\* condition of its first if).
DirectCondition(url) == DirectConditionOf(url, settings.verify_downloads, cookie_header, game_id)

NeedsDomFallback_Always(net) == TRUE

\* if not links: the DOM scrape runs when network interception gave no link.
NeedsDomFallback(net) == net = <<>>

ZeroQueueArtifacts_StopAtFirstFailure(failed) ==
    IF "screenshot" \in failed THEN {"screenshot_error"}
    ELSE IF "html" \in failed THEN {"screenshot", "html_error"}
    ELSE {"screenshot", "html", IF "meta" \in failed THEN "meta_error" ELSE "meta"}

\* The keys write_zero_queue_artifacts returns when the captures in failed fail.
ZeroQueueArtifacts(failed) ==
    {IF k \in failed THEN k \o "_error" ELSE k : k \in {"screenshot", "html", "meta"}}

\* main() / run_download_stage up to the loop: cookies, link extraction by
\* network interception with the DOM fallback, the max-mods cap, queue_count,
\* and the zero-queue artifacts.
Extract ==
    /\ pc = "extract"
    /\ \E cookies \in {"", "sid=1"}, gid \in {0, 1303},
          net \in DistinctSeqs(Targets, MaxQueue), dom \in DistinctSeqs(Targets, 1),
          failed \in SUBSET {"screenshot", "html", "meta"} :
         LET found == IF NeedsDomFallback(net) THEN dom ELSE net
             queue == Truncate(found, settings.max_mods)
         IN /\ cookies = "" => gid # 0
            /\ queue # <<>> => failed = {}
            /\ cookie_header' = cookies
            /\ game_id' = gid
            /\ links' = queue
            /\ run_data' = [run_data EXCEPT
                              !.dom_fallback = NeedsDomFallback(net),
                              !.queue_count = Len(queue),
                              !.zero_queue_artifacts =
                                  IF queue = <<>> THEN ZeroQueueArtifacts(failed) ELSE {}]
            /\ hist' = [hist EXCEPT
                          !.strategy = IF NeedsDomFallback(net) THEN "dom_fallback"
                                       ELSE "network_graphql",
                          !.extracted = found,
                          !.net = net]
            /\ pc' = IF queue = <<>> /\ entry = AQ THEN "install" ELSE "loop"
    /\ UNCHANGED <<call, result, entry, settings, idx, downloaded_files, install_args, json_log,
                   txt_log, exit_code, pm, ret, listeners, files, growing,
                   browser_file>>

\* The index enumerate gives the next target.
NextIndex(i) == i + 1

\* for idx, mod_url in enumerate(links, start=1): the next target enters
\* process_mod, which tries the direct path or goes to the navigation.
LoopNext ==
    /\ pc = "loop"
    /\ idx < Len(links)
    /\ idx' = NextIndex(idx)
    /\ pm' = PmInit
    /\ hist' = [HistNextItem(hist) EXCEPT !.started = @ + 1]
    /\ pc' = IF DirectCondition(links[idx']) THEN "direct" ELSE "nav"
    /\ UNCHANGED <<call, result, entry, settings, cookie_header, game_id, links, run_data,
                   downloaded_files, install_args, json_log, txt_log, exit_code, ret,
                   listeners, files, growing, browser_file>>

\* The loop is over: nexus_browser_first closes the browser, run_download_stage
\* waits and returns downloaded_files.
LoopEnd ==
    /\ pc = "loop"
    /\ idx >= Len(links)
    /\ pc' = IF entry = AQ THEN "install" ELSE "final"
    /\ UNCHANGED <<call, result, entry, settings, cookie_header, game_id, links, idx, run_data,
                   downloaded_files, install_args, json_log, txt_log, exit_code, pm,
                   ret, listeners, files, growing, browser_file, hist>>

DelayNeeded_AfterEvery(i, n) == i <= n

\* if idx < len(links): the delay follows every target but the last.
DelayNeeded(i, n) == i < n

AppendResult_NoIndex(results, item, i) == Append(results, item)

\* run_data["results"] with the returned item appended under its index.
AppendResult(results, item, i) == Append(results, [item EXCEPT !.index = i])

\* The loop body after process_mod returned: item.index = idx, the append,
\* then write_run_logs (nexus_browser_first) or the saved-path bookkeeping
\* (run_download_stage), and the inter-item delay when a target follows.
AppendItem ==
    /\ pc = "append"
    /\ LET rd == [run_data EXCEPT !.results = AppendResult(@, ret, idx)]
           saved == find_download_path(ret.reason)
       IN /\ run_data' = rd
          /\ IF entry = NBF
             THEN /\ json_log' = <<JsonDocument(rd)>>
                  /\ txt_log' = <<SummaryLines(entry, rd)>>
                  /\ UNCHANGED downloaded_files
             ELSE /\ downloaded_files' =
                        IF saved # NoArg THEN Append(downloaded_files, saved)
                        ELSE downloaded_files
                  /\ UNCHANGED <<json_log, txt_log>>
    /\ ret' = NoItem
    /\ pm' = PmInit
    /\ hist' = [HistNextItem(hist) EXCEPT !.appended = @ + 1]
    /\ pc' = IF DelayNeeded(idx, Len(links)) THEN "delay" ELSE "loop"
    /\ UNCHANGED <<call, result, entry, settings, cookie_header, game_id, links, idx, install_args,
                   exit_code, listeners, files, growing, browser_file>>

\* page.wait_for_timeout(delay) between two targets.
Delay ==
    /\ pc = "delay"
    /\ hist' = [hist EXCEPT !.delays = @ + 1]
    /\ pc' = "loop"
    /\ UNCHANGED <<call, result, entry, settings, cookie_header, game_id, links, idx, run_data,
                   downloaded_files, install_args, json_log, txt_log, exit_code, pm,
                   ret, listeners, files, growing, browser_file>>

\* auto_que.main, stage 4: skipped for skip_install or dry_run, else
\* install_downloaded_archives, which drops repeated paths and installs or
\* fails each remaining archive on its own.
Install ==
    /\ pc = "install"
    /\ IF settings.skip_install \/ settings.dry_run
       THEN UNCHANGED <<install_args, run_data>>
       ELSE LET unique_downloads == Dedupe(downloaded_files)
            IN /\ install_args' = <<unique_downloads>>
               /\ \E installed \in 0..Len(unique_downloads) :
                    run_data' = [run_data EXCEPT !.install_summary =
                                   [present |-> TRUE, installed |-> installed,
                                    failed |-> Len(unique_downloads) - installed]]
    /\ pc' = "final"
    /\ UNCHANGED <<call, result, entry, settings, cookie_header, game_id, links, idx,
                   downloaded_files, json_log, txt_log, exit_code, pm, ret, listeners,
                   files, growing, browser_file, hist>>

\* After the try block: write_run_logs, the summary, the return code.
Final ==
    /\ pc = "final"
    /\ json_log' = <<JsonDocument(run_data)>>
    /\ txt_log' = <<SummaryLines(entry, run_data)>>
    /\ exit_code' = ReturnCode(entry, run_data)
    /\ pc' = "done"
    /\ UNCHANGED <<call, result, entry, settings, cookie_header, game_id, links, idx, run_data,
                   downloaded_files, install_args, pm, ret, listeners, files, growing,
                   browser_file, hist>>

\* An exception unwinds to main(): the locals of process_mod and of the loop
\* body are gone; the page keeps its listeners and the directory its files.
Unwind ==
    /\ pm' = PmInit
    /\ ret' = NoItem
    /\ UNCHANGED browser_file

\* Ctrl+C anywhere in the try block: KeyboardInterrupt is no Exception, so no
\* handler of process_mod catches it; it unwinds to main().
Interrupt ==
    /\ pc \in TryPcs(entry)
    /\ run_data' = OnKeyboardInterrupt(entry, run_data)
    /\ hist' = [HistNextItem(hist) EXCEPT !.intr_at = IF pc \in PmPcs THEN idx ELSE 0,
                                          !.fatal_kind = "interrupt"]
    /\ Unwind
    /\ pc' = "final"
    /\ UNCHANGED <<call, result, entry, settings, cookie_header, game_id, links, idx,
                   downloaded_files, install_args, json_log, txt_log, exit_code,
                   listeners, files, growing>>

\* Positions where a call outside every try of process_mod can raise: the
\* browser connection and collection page load, page.locator and
\* page.wait_for_timeout in the click searches and loops, the wait after a
\* failed navigation attempt, the install stage.
CrashPcs(e) ==
    {"extract", "cookie", "slow1", "manual", "slow2", "poll", "delay"}
        \cup (IF e = AQ THEN {"install"} ELSE {})

\* str(e) of the exception raised at a position: some text; at the start of
\* the run also the timeout of the collection page's page.goto, which
\* collect_links_via_network lets through (try/finally), and the empty string
\* of an exception without arguments.
CrashTexts(at) ==
    IF at = "extract" THEN {"", "Target closed", COLLECTION_TIMEOUT} ELSE {"Target closed"}

\* An unexpected exception reaches main()'s except Exception.
Crash ==
    /\ pc \in CrashPcs(entry) \cup (IF pm.nav_count >= 1 THEN {"nav"} ELSE {})
    /\ \E text \in CrashTexts(pc) :
         run_data' = OnException(run_data, text)
    /\ hist' = [HistNextItem(hist) EXCEPT !.fatal_kind = "exception"]
    /\ Unwind
    /\ pc' = "final"
    /\ UNCHANGED <<call, result, entry, settings, cookie_header, game_id, links, idx,
                   downloaded_files, install_args, json_log, txt_log, exit_code,
                   listeners, files, growing>>

\* ------------------------------------------------------------- process_mod
\* return ItemResult(0, mod_url, status, reason): the locals are gone.
Return(status, reason) ==
    /\ ret' = ItemResult(0, links[idx], status, reason)
    /\ pc' = "append"
    /\ pm' = PmInit

remove_listener_Noop(n) == n

\* page.remove_listener("download", on_download)
remove_listener(n) == IF n > 0 THEN n - 1 ELSE n

\* page.on("download", on_download)
add_listener(n) == n + 1

AfterDirectFailure_Fatal(insecure, e) == "final"

\* Where process_mod goes when a direct attempt raised e: the insecure-SSL
\* retry after a certificate error of the first attempt, else the click flow.
AfterDirectFailure(insecure, e) ==
    IF ~insecure /\ is_ssl_verify_error(e) THEN "retry" ELSE "nav"

\* One direct attempt (resolve_download_url_via_web_with_context, then
\* direct_download_to_folder_with_context), with or without the unverified SSL
\* context: it saves the file and returns ok or partial by the file's name, or
\* raises (a certificate error or another one).
DirectAttempt(insecure) ==
    \/ \E nm \in DirectNames :
         LET target == DirectSave(nm, files).target
         IN /\ target # NoPath
            /\ files' = DirectSave(nm, files).files
            /\ hist' = [hist EXCEPT !.direct_log = Append(@, "ok")]
            /\ IF is_good_archive_name(target)
               THEN Return("ok", IF insecure THEN R_direct_insecure(target)
                                 ELSE R_direct(target))
               ELSE Return("partial", R_direct_suspicious(target))
    \/ \E e \in {SSL_ERROR, OTHER_ERROR} :
         /\ hist' = [hist EXCEPT !.direct_log = Append(@, e)]
         /\ pc' = AfterDirectFailure(insecure, e)
         /\ UNCHANGED <<files, ret, pm>>

\* The first direct attempt, ssl_context=None.
Direct ==
    /\ pc = "direct"
    /\ DirectAttempt(FALSE)
    /\ UNCHANGED <<call, result, entry, settings, cookie_header, game_id, links, idx, run_data,
                   downloaded_files, install_args, json_log, txt_log, exit_code,
                   listeners, growing, browser_file>>

\* The retry with ssl._create_unverified_context().
DirectRetry ==
    /\ pc = "retry"
    /\ DirectAttempt(TRUE)
    /\ UNCHANGED <<call, result, entry, settings, cookie_header, game_id, links, idx, run_data,
                   downloaded_files, install_args, json_log, txt_log, exit_code,
                   listeners, growing, browser_file>>

\* One pass of "for _ in range(2)": page.goto succeeds and the loop breaks, or
\* it raises and nav_error is set; after the last pass a set nav_error returns
\* fail. The loop's counter and nav_error are dead once the loop is left.
Navigate ==
    /\ pc = "nav"
    /\ pm.nav_count < NAV_ATTEMPTS
    /\ \E e \in {None, NAV_TIMEOUT} :
         LET n == pm.nav_count + 1
         IN IF e = None
            THEN /\ pm' = PmInit
                 /\ hist' = [hist EXCEPT !.nav_attempts = 0]
                 /\ pc' = "cookie"
                 /\ UNCHANGED ret
            ELSE /\ hist' = [hist EXCEPT !.nav_attempts = @ + 1]
                 /\ IF n < NAV_ATTEMPTS
                    THEN /\ pm' = [pm EXCEPT !.nav_count = n, !.nav_error = e]
                         /\ pc' = "nav"
                         /\ UNCHANGED ret
                    ELSE Return("fail", R_navigation_error(e))
    /\ UNCHANGED <<call, result, entry, settings, cookie_header, game_id, links, idx, run_data,
                   downloaded_files, install_args, json_log, txt_log, exit_code,
                   listeners, files, growing, browser_file>>

StopsForDryRun_Never(dry_run) == FALSE

\* if dry_run: return before anything is clicked.
StopsForDryRun(dry_run) == dry_run

\* After the navigation: the cookie banner, the dry-run return, else the
\* baseline snapshot, the empty seen/saved/error lists and page.on("download").
Prepare ==
    /\ pc = "cookie"
    /\ IF StopsForDryRun(settings.dry_run)
       THEN /\ Return("dry_run", R_navigation_only)
            /\ UNCHANGED <<listeners, hist>>
       ELSE /\ pm' = [pm EXCEPT !.baseline = IF settings.verify_downloads THEN files ELSE {}]
            /\ listeners' = add_listener(listeners)
            /\ hist' = [hist EXCEPT !.registered = @ + 1]
            /\ pc' = "slow1"
            /\ UNCHANGED ret
    /\ UNCHANGED <<call, result, entry, settings, cookie_header, game_id, links, idx, run_data,
                   downloaded_files, install_args, json_log, txt_log, exit_code,
                   files, growing, browser_file>>

AfterSlowClick_AlwaysPolls ==
    /\ pc' = "poll"
    /\ UNCHANGED <<ret, listeners, pm>>

\* After a slow/free control was clicked: the completion loop when downloads
\* are verified, else the listener is removed and the item is ok.
AfterSlowClick ==
    IF settings.verify_downloads
    THEN /\ pc' = "poll"
         /\ UNCHANGED <<ret, listeners, pm>>
    ELSE /\ listeners' = remove_listener(listeners)
         /\ Return("ok", R_manual_and_slow_clicked)

\* click_first_visible(page, SLOW_SELECTORS): the first search.
SlowClick ==
    /\ pc = "slow1"
    /\ \E found \in BOOLEAN :
         IF found
         THEN /\ hist' = [hist EXCEPT !.clicks = @ \cup {"slow"}]
              /\ AfterSlowClick
         ELSE /\ pc' = "manual"
              /\ UNCHANGED <<ret, listeners, hist, pm>>
    /\ UNCHANGED <<call, result, entry, settings, cookie_header, game_id, links, idx, run_data,
                   downloaded_files, install_args, json_log, txt_log, exit_code,
                   files, growing, browser_file>>

\* click_first_visible(page, MANUAL_SELECTORS); none: fallback_needed.
ManualClick ==
    /\ pc = "manual"
    /\ \E found \in BOOLEAN :
         IF found
         THEN /\ hist' = [hist EXCEPT !.clicks = @ \cup {"manual"}]
              /\ pc' = "slow2"
              /\ UNCHANGED <<ret, listeners, pm>>
         ELSE /\ listeners' = remove_listener(listeners)
              /\ Return("fallback_needed", R_manual_button_not_found)
              /\ UNCHANGED hist
    /\ UNCHANGED <<call, result, entry, settings, cookie_header, game_id, links, idx, run_data,
                   downloaded_files, install_args, json_log, txt_log, exit_code,
                   files, growing, browser_file>>

SlowClickAfterManual_FallbackNeeded ==
    /\ pc = "slow2"
    /\ \E found \in BOOLEAN :
         IF found
         THEN /\ hist' = [hist EXCEPT !.clicks = @ \cup {"slow"}]
              /\ AfterSlowClick
         ELSE /\ listeners' = remove_listener(listeners)
              /\ Return("fallback_needed", R_manual_button_not_found)
              /\ UNCHANGED hist
    /\ UNCHANGED <<call, result, entry, settings, cookie_header, game_id, links, idx, run_data,
                   downloaded_files, install_args, json_log, txt_log, exit_code,
                   files, growing, browser_file>>

\* The slow/free search after the manual click; none: partial.
SlowClickAfterManual ==
    /\ pc = "slow2"
    /\ \E found \in BOOLEAN :
         IF found
         THEN /\ hist' = [hist EXCEPT !.clicks = @ \cup {"slow"}]
              /\ AfterSlowClick
         ELSE /\ listeners' = remove_listener(listeners)
              /\ Return("partial", R_confirmation_not_found)
              /\ UNCHANGED hist
    /\ UNCHANGED <<call, result, entry, settings, cookie_header, game_id, links, idx, run_data,
                   downloaded_files, install_args, json_log, txt_log, exit_code,
                   files, growing, browser_file>>

\* An entry of download_errors: f"{name}: cancelled" or f"{name}: {exc}".
SaveError(name, text) == [name |-> name, text |-> text]

OnDownloadWithin_DropsCancelled(max_events) ==
    /\ listeners > 0
    /\ pc = "poll"
    /\ hist.events < max_events
    /\ \E name \in EventNames, out \in {"saved", "cancelled", "raised"} :
         LET target == ListenerSave(name, files).target
         IN IF out = "saved" /\ target # NoPath
            THEN /\ files' = ListenerSave(name, files).files
                 /\ pm' = [pm EXCEPT !.seen_downloads = Append(@, name),
                                     !.saved_downloads = Append(@, target)]
            ELSE /\ pm' = [pm EXCEPT !.seen_downloads = Append(@, name),
                                     !.download_errors =
                                         IF out = "cancelled" THEN @
                                         ELSE Append(@, SaveError(name, "save failed"))]
                 /\ UNCHANGED files
    /\ hist' = [hist EXCEPT !.events = @ + 1]
    /\ UNCHANGED <<call, result, entry, settings, cookie_header, game_id, links, pc, idx, run_data,
                   downloaded_files, install_args, json_log, txt_log, exit_code, ret,
                   listeners, growing, browser_file>>

OnDownloadWithin_KeepsLast(max_events) ==
    /\ listeners > 0
    /\ pc = "poll"
    /\ hist.events < max_events
    /\ \E name \in EventNames, out \in {"saved", "cancelled", "raised"} :
         LET target == ListenerSave(name, files).target
         IN IF out = "saved" /\ target # NoPath
            THEN /\ files' = ListenerSave(name, files).files
                 /\ pm' = [pm EXCEPT !.seen_downloads = <<name>>,
                                     !.saved_downloads = <<target>>]
            ELSE /\ pm' = [pm EXCEPT !.seen_downloads = <<name>>,
                                     !.download_errors =
                                         <<SaveError(name,
                                             IF out = "cancelled" THEN "cancelled"
                                             ELSE "save failed")>>]
                 /\ UNCHANGED files
    /\ hist' = [hist EXCEPT !.events = @ + 1]
    /\ UNCHANGED <<call, result, entry, settings, cookie_header, game_id, links, pc, idx, run_data,
                   downloaded_files, install_args, json_log, txt_log, exit_code, ret,
                   listeners, growing, browser_file>>

\* on_download: the callback the browser runs for a download event while the
\* listener is registered. It appends the suggested name to seen_downloads,
\* then saves under a unique path and appends that to saved_downloads, or
\* appends the failure (a cancellation, or whatever else was raised in the
\* save, a KeyboardInterrupt included) to download_errors.
OnDownloadWithin(max_events) ==
    /\ listeners > 0
    /\ pc = "poll"
    /\ hist.events < max_events
    /\ \E name \in EventNames, out \in {"saved", "cancelled", "raised"} :
         LET target == ListenerSave(name, files).target
         IN IF out = "saved" /\ target # NoPath
            THEN /\ files' = ListenerSave(name, files).files
                 /\ pm' = [pm EXCEPT !.seen_downloads = Append(@, name),
                                     !.saved_downloads = Append(@, target)]
            ELSE /\ pm' = [pm EXCEPT !.seen_downloads = Append(@, name),
                                     !.download_errors =
                                         Append(@, SaveError(name,
                                             IF out = "cancelled" THEN "cancelled"
                                             ELSE "save failed"))]
                 /\ UNCHANGED files
    /\ hist' = [hist EXCEPT !.events = @ + 1]
    /\ UNCHANGED <<call, result, entry, settings, cookie_header, game_id, links, pc, idx, run_data,
                   downloaded_files, install_args, json_log, txt_log, exit_code, ret,
                   listeners, growing, browser_file>>

\* The download events of a whole run.
OnDownload == OnDownloadWithin(MaxEvents)

\* The browser starts writing a download to the downloads directory by itself,
\* under an in-progress name.
BrowserStarts ==
    /\ pc = "poll"
    /\ browser_file.state = "none"
    /\ \E name \in BrowserNames :
         LET f == [unique_path(name, files) EXCEPT !.tmp = ".crdownload"]
         IN /\ files' = files \cup {f}
            /\ growing' = growing \cup {f}
            /\ browser_file' = [state |-> "writing", name |-> f]
    /\ UNCHANGED <<call, result, entry, settings, cookie_header, game_id, links, pc, idx, run_data,
                   downloaded_files, install_args, json_log, txt_log, exit_code, pm,
                   ret, listeners, hist>>

\* The browser finishes its download: the file gets its final name and its
\* size no longer changes.
BrowserFinishes ==
    /\ pc = "poll"
    /\ browser_file.state = "writing"
    /\ LET f == browser_file.name
           final == IF is_temp_download(f)
                    THEN unique_path([f EXCEPT !.tmp = ""], files \ {f})
                    ELSE f
       IN /\ files' = (files \ {f}) \cup {final}
          /\ growing' = growing \ {f}
    /\ browser_file' = [state |-> "done"]
    /\ UNCHANGED <<call, result, entry, settings, cookie_header, game_id, links, pc, idx, run_data,
                   downloaded_files, install_args, json_log, txt_log, exit_code, pm,
                   ret, listeners, hist>>

\* wait_until_file_is_stable on a directory dir whose files in grow change
\* size between samples: the file exists, is no temporary download, and had
\* one size over all samples.
FileIsStable(f, dir, grow) ==
    /\ f \in dir
    /\ ~is_temp_download(f)
    /\ f \notin grow

\* wait_for_new_completed_download on such a directory: the files it can
\* return, the new ones (absent from the baseline) that are not temporary
\* and are stable.
CompletedIn(dir, grow, baseline) ==
    {f \in dir \ baseline : ~is_temp_download(f) /\ FileIsStable(f, dir, grow)}

\* wait_until_file_is_stable on the downloads directory of the run.
wait_until_file_is_stable(f) == FileIsStable(f, files, growing)

NewCompletedDownloads_IgnoresBaseline(baseline) == CompletedIn(files, growing, {})

\* wait_for_new_completed_download on the downloads directory of the run.
NewCompletedDownloads(baseline) == CompletedIn(files, growing, baseline)

Last(s) == s[Len(s)]

InterstitialRetry_Always(started_text, used) == started_text

\* The interstitial branch: the text is visible and not manual_retry_used.
InterstitialRetry(started_text, used) == started_text /\ ~used

HasSavedDownload_UnlessErrors(p) == p.saved_downloads # <<>> /\ p.download_errors = <<>>

\* if saved_downloads: the first test of an iteration.
HasSavedDownload(p) == p.saved_downloads # <<>>

\* One iteration of the completion loop "while time.time() < deadline"; how
\* many iterations fit before the deadline is left open.
PollIteration ==
    /\ pc = "poll"
    /\ \E started_text \in BOOLEAN :
         IF HasSavedDownload(pm)
         THEN /\ started_text
              /\ listeners' = remove_listener(listeners)
              /\ Return("ok", R_download_saved(Last(pm.saved_downloads)))
              /\ UNCHANGED hist
         ELSE IF pm.seen_downloads # <<>> /\ ~is_good_archive_name(Last(pm.seen_downloads))
         THEN /\ started_text
              /\ IF ~pm.manual_retry_used
                 THEN /\ pm' = [pm EXCEPT !.manual_retry_used = TRUE, !.polled = TRUE]
                      /\ hist' = [hist EXCEPT !.retries = @ + 1, !.observed = @ + 1]
                      /\ UNCHANGED <<pc, ret, listeners>>
                 ELSE /\ listeners' = remove_listener(listeners)
                      /\ Return("partial", R_suspicious_filename(Last(pm.seen_downloads)))
                      /\ hist' = [hist EXCEPT !.observed = @ + 1]
         ELSE IF InterstitialRetry(started_text, pm.manual_retry_used)
         THEN /\ pm' = [pm EXCEPT !.manual_retry_used = TRUE, !.polled = TRUE]
              /\ hist' = [hist EXCEPT !.retries = @ + 1]
              /\ UNCHANGED <<pc, ret, listeners>>
         ELSE IF NewCompletedDownloads(pm.baseline) # {}
         THEN /\ started_text
              /\ \E downloaded \in NewCompletedDownloads(pm.baseline) :
                   Return("ok", R_file_detected(downloaded))
              /\ listeners' = remove_listener(listeners)
              /\ UNCHANGED hist
         ELSE /\ started_text
              /\ pm' = [pm EXCEPT !.polled = TRUE]
              /\ UNCHANGED <<pc, ret, listeners, hist>>
    /\ UNCHANGED <<call, result, entry, settings, cookie_header, game_id, links, idx, run_data,
                   downloaded_files, install_args, json_log, txt_log, exit_code,
                   files, growing, browser_file>>

PollTimeout_Never ==
    /\ pc = "poll"
    /\ pm.polled
    /\ FALSE
    /\ UNCHANGED vars

PollTimeout_FirstError ==
    /\ pc = "poll"
    /\ pm.polled
    /\ listeners' = remove_listener(listeners)
    /\ IF pm.download_errors # <<>>
       THEN Return("partial", R_save_error(pm.download_errors[1]))
       ELSE Return("partial", R_signal_not_detected)
    /\ UNCHANGED <<call, result, entry, settings, cookie_header, game_id, links, idx, run_data,
                   downloaded_files, install_args, json_log, txt_log, exit_code,
                   files, growing, browser_file, hist>>

\* The deadline has passed: the listener is removed and the item is partial,
\* with the last save error if there is one.
PollTimeout ==
    /\ pc = "poll"
    /\ pm.polled
    /\ listeners' = remove_listener(listeners)
    /\ IF pm.download_errors # <<>>
       THEN Return("partial", R_save_error(Last(pm.download_errors)))
       ELSE Return("partial", R_signal_not_detected)
    /\ UNCHANGED <<call, result, entry, settings, cookie_header, game_id, links, idx, run_data,
                   downloaded_files, install_args, json_log, txt_log, exit_code,
                   files, growing, browser_file, hist>>

Next ==
    \/ Extract
    \/ LoopNext
    \/ LoopEnd
    \/ AppendItem
    \/ Delay
    \/ Install
    \/ Final
    \/ Interrupt
    \/ Crash
    \/ Direct
    \/ DirectRetry
    \/ Navigate
    \/ Prepare
    \/ SlowClick
    \/ ManualClick
    \/ SlowClickAfterManual
    \/ OnDownload
    \/ BrowserStarts
    \/ BrowserFinishes
    \/ PollIteration
    \/ PollTimeout

Spec == Init /\ [][Next]_vars

\* ------------------------------------------- the completion loop on its own
\* Most download events while one target's completion loop runs.
MaxPollEvents == 2

\* process_mod enters the completion loop for the only target of a queue:
\* downloads are verified, the listener is registered and a slow/free control
\* was clicked, at once or after the manual control; the downloads directory
\* is empty.
PollInit ==
    /\ entry = NBF
    /\ settings = Settings(FALSE, TRUE, FALSE, 0)
    /\ cookie_header = ""
    /\ game_id = 1303
    /\ links = <<Target(10, 0)>>
    /\ pc = "poll"
    /\ idx = 1
    /\ run_data = [RunDataInit(settings) EXCEPT !.queue_count = 1]
    /\ downloaded_files = <<>>
    /\ install_args = <<>>
    /\ json_log = <<>>
    /\ txt_log = <<>>
    /\ exit_code = -1
    /\ pm = PmInit
    /\ ret = NoItem
    /\ listeners = 1
    /\ files = {}
    /\ growing = {}
    /\ browser_file = NoBrowserFile
    /\ \E clicked \in {{"slow"}, {"manual", "slow"}} :
         hist = [HistInit EXCEPT !.clicks = clicked, !.registered = 1, !.started = 1,
                                 !.strategy = "network_graphql",
                                 !.extracted = links, !.net = links]
    /\ call = NoCall
    /\ result = NoResult

\* The download events of that loop.
OnDownloadPoll == OnDownloadWithin(MaxPollEvents)

\* What runs until process_mod returns: the listener's callback, the browser
\* writing into the directory, the iterations and the deadline.
PollNext ==
    \/ OnDownloadPoll
    \/ BrowserStarts
    \/ BrowserFinishes
    \/ PollIteration
    \/ PollTimeout

SpecPoll == PollInit /\ [][PollNext]_vars

\* ------------------------------------------- the loop over a queue of two
\* main() enters "for idx, mod_url in enumerate(links, start=1)" with a queue
\* of two targets, downloads verified, with session cookies and the game id
\* known: the first target names no file and takes the click flow, the second
\* names one and takes the direct path first.
ItemsInit ==
    /\ entry = NBF
    /\ settings = Settings(FALSE, TRUE, FALSE, 0)
    /\ cookie_header = "sid=1"
    /\ game_id = 1303
    /\ links = <<Target(10, 0), Target(20, 5)>>
    /\ pc = "loop"
    /\ idx = 0
    /\ run_data = [RunDataInit(settings) EXCEPT !.queue_count = 2]
    /\ downloaded_files = <<>>
    /\ install_args = <<>>
    /\ json_log = <<>>
    /\ txt_log = <<>>
    /\ exit_code = -1
    /\ pm = PmInit
    /\ ret = NoItem
    /\ listeners = 0
    /\ files = {}
    /\ growing = {}
    /\ browser_file = NoBrowserFile
    /\ hist = [HistInit EXCEPT !.strategy = "network_graphql",
                               !.extracted = links, !.net = links]
    /\ call = NoCall
    /\ result = NoResult

\* A step of process_mod: a call that returns or a branch taken.
ProcessModStep ==
    \/ Direct
    \/ DirectRetry
    \/ Navigate
    \/ Prepare
    \/ SlowClick
    \/ ManualClick
    \/ SlowClickAfterManual
    \/ PollIteration
    \/ PollTimeout

\* The loop over the queue with the browser's download events, at most
\* MaxPollEvents of them, and the file the browser writes by itself.
ItemsNext ==
    \/ LoopNext
    \/ AppendItem
    \/ Delay
    \/ ProcessModStep
    \/ OnDownloadPoll
    \/ BrowserStarts
    \/ BrowserFinishes

SpecItems == ItemsInit /\ [][ItemsNext]_vars

\* ------------------------------------------------- one call of process_mod
\* main() enters the loop with one target that names a file, downloads
\* verified, cookies and game id known: process_mod tries the direct path and,
\* when that fails, the click flow.
CallInit ==
    /\ entry = NBF
    /\ settings = Settings(FALSE, TRUE, FALSE, 0)
    /\ cookie_header = "sid=1"
    /\ game_id = 1303
    /\ links = <<Target(20, 5)>>
    /\ pc = "loop"
    /\ idx = 0
    /\ run_data = [RunDataInit(settings) EXCEPT !.queue_count = 1]
    /\ downloaded_files = <<>>
    /\ install_args = <<>>
    /\ json_log = <<>>
    /\ txt_log = <<>>
    /\ exit_code = -1
    /\ pm = PmInit
    /\ ret = NoItem
    /\ listeners = 0
    /\ files = {}
    /\ growing = {}
    /\ browser_file = NoBrowserFile
    /\ hist = [HistInit EXCEPT !.strategy = "network_graphql",
                               !.extracted = links, !.net = links]
    /\ call = NoCall
    /\ result = NoResult

\* The thread from the call of process_mod to the append of its result.
CallStep ==
    \/ LoopNext
    \/ AppendItem
    \/ ProcessModStep

CallNext ==
    \/ CallStep
    \/ OnDownloadPoll
    \/ BrowserStarts
    \/ BrowserFinishes

\* That call when every call it makes returns: the thread is not held up for
\* ever at any of its steps, and the wall clock passes the deadline of a
\* completion loop that keeps iterating.
FairSpecCall == CallInit /\ [][CallNext]_vars /\ WF_vars(CallStep) /\ WF_vars(PollTimeout)

\* ------------------------------------------------- functions on their own
\* Most links in a list given to dedupe_links.
MaxLinks == 3

\* The URLs the lists are made of: a canonical one, the same with another
\* scheme, host spelling and a trailing slash, with a capital in the domain, a
\* leading zero in the mod id, a capital in "mods"; one with file_id=05, its
\* canonical form, file_id=0 and a file_id that is no number; and URLs of
\* another scheme, another host and with a mod id that is no number.
RawUrls ==
    {Target(10, 0),
     Url("http", "NexusMods.com", "game", "mods", Num(0, 10), NoFid, FALSE, TRUE),
     Url("https", "www.nexusmods.com", "Game", "mods", Num(0, 10), NoFid, FALSE, FALSE),
     Url("https", "www.nexusmods.com", "game", "mods", Num(1, 10), NoFid, FALSE, FALSE),
     Url("https", "www.nexusmods.com", "game", "Mods", Num(0, 10), NoFid, FALSE, FALSE),
     Url("https", "www.nexusmods.com", "game", "mods", Num(0, 20), Num(1, 5), FALSE, FALSE),
     Target(20, 5),
     Url("https", "www.nexusmods.com", "game", "mods", Num(0, 20), Num(0, 0), TRUE, FALSE),
     Url("https", "www.nexusmods.com", "game", "mods", Num(0, 20), NotANumber, FALSE, FALSE),
     Url("ftp", "www.nexusmods.com", "game", "mods", Num(0, 10), NoFid, FALSE, FALSE),
     Url("https", "example.com", "game", "mods", Num(0, 10), NoFid, FALSE, FALSE),
     Url("https", "www.nexusmods.com", "game", "mods", NotANumber, NoFid, FALSE, FALSE)}

\* The largest collision suffix among the files of the directories examined.
MaxSuffix == 2

\* The directories examined: mod.zip with its collision-suffixed copies, the
\* leftover mod.zip.part of a transfer that broke off, and mod.exe.
Directories ==
    SUBSET ({Name("mod", i, ".zip", "") : i \in 0..MaxSuffix}
               \cup {Name("mod", 0, ".zip", ".part"), Name("mod", 0, ".exe", "")})

\* The files of the directories the completion poll is examined on: three
\* in-progress files, one for each extension, and a finished archive.
PolledNames ==
    {Name("report", 0, "", ".crdownload"), Name("mod", 0, ".zip", ".part"),
     Name("mod", 0, "", ".tmp"), Name("mod", 0, ".zip", "")}

\* Those directories with a baseline snapshot and the files still changing
\* size: every file is absent, or present and then old or new, and of a
\* changing or a constant size.
PolledDirectories ==
    {[existing |-> dir, baseline |-> base, growing |-> grow] :
        dir \in SUBSET PolledNames, base \in SUBSET PolledNames, grow \in SUBSET PolledNames}

\* The archives given to install_downloaded_archives, and what each is on
\* disk: missing, broken (no extractor unpacks it), good, or good with files
\* that _merge_tree cannot copy into the install directory.
Archives == {"a.zip", "b.zip", "c.7z"}
ArchiveStates == [Archives -> {"missing", "broken", "good", "uncopyable"}]

\* The item install_downloaded_archives appends for an archive.
ArchiveItem(archive, state) ==
    [archive |-> archive,
     status |-> IF state = "good" THEN "installed" ELSE "failed",
     reason |-> CASE state = "missing" -> "archive_not_found"
                  [] state = "broken" -> "unsupported_archive_or_missing_7z"
                  [] OTHER -> "method:unpack_archive"]

ContinuesAfter_OnlyInstalled(item) == item.status = "installed"

\* "continue" after a failed item, the end of the loop body after an
\* installed one: the loop goes on with the next archive.
ContinuesAfter(item) == TRUE

\* for archive in unique_downloads, from the i-th archive on; copying that
\* fails raises out of the function, before the item is appended.
RECURSIVE InstallLoop(_, _, _, _)
InstallLoop(unique_downloads, i, on_disk, payload) ==
    IF i > Len(unique_downloads) THEN payload
    ELSE IF on_disk[unique_downloads[i]] = "uncopyable"
    THEN [payload EXCEPT !.raised = TRUE]
    ELSE LET item == ArchiveItem(unique_downloads[i], on_disk[unique_downloads[i]])
             after == [payload EXCEPT
                          !.results = Append(@, item),
                          !.installed = IF item.status = "installed" THEN @ + 1 ELSE @,
                          !.failed = IF item.status = "failed" THEN @ + 1 ELSE @]
         IN IF ContinuesAfter(item)
            THEN InstallLoop(unique_downloads, i + 1, on_disk, after)
            ELSE after

\* install_downloaded_archives: repeated paths are dropped, then the loop.
install_downloaded_archives(downloaded_paths, on_disk) ==
    InstallLoop(Dedupe(downloaded_paths), 1, on_disk,
                [installed |-> 0, failed |-> 0, results |-> <<>>, raised |-> FALSE])

\* URLs dedupe_links lets into the queue, process_mod's mod_url: the two
\* targets, and a file of mod 20 and one of mod 0 with "Mods" and the mod id as
\* the page or the payload wrote them.
QueueUrls ==
    Targets \cup
    {Url("https", "www.nexusmods.com", "game", "Mods", Num(0, 20), Num(0, 5), TRUE, FALSE),
     Url("https", "www.nexusmods.com", "game", "mods", Num(0, 0), Num(0, 5), TRUE, FALSE)}

\* The lists over S of length at most n.
RECURSIVE SeqsUpTo(_, _)
SeqsUpTo(S, n) ==
    IF n = 0 THEN {<<>>}
    ELSE LET shorter == SeqsUpTo(S, n - 1)
         IN shorter \cup {Append(t, x) : t \in {u \in shorter : Len(u) = n - 1}, x \in S}

\* The calls examined.
Calls ==
    {[fn |-> "dedupe_links", links |-> ls] : ls \in SeqsUpTo(RawUrls, MaxLinks)}
        \cup {[fn |-> "parse_mod_target", urls |-> <<u, v>>] : u \in RawUrls, v \in RawUrls}
        \cup {[fn |-> "unique_path", path |-> p, existing |-> dir] :
                 p \in DirectNames \cup EventNames, dir \in Directories}
        \cup {[fn |-> "direct_download_to_folder_with_context", name |-> nm, existing |-> dir,
                header |-> h, stream |-> st] :
                 nm \in DirectNames \cup EventNames, dir \in Directories, h \in HeaderPaths,
                 st \in Streams}
        \cup {[fn |-> "on_download", name |-> nm, existing |-> dir] :
                 nm \in EventNames, dir \in Directories}
        \cup {[fn |-> "install_downloaded_archives", paths |-> ps, on_disk |-> st] :
                 ps \in SeqsUpTo(Archives, MaxLinks), st \in ArchiveStates}
        \cup {[fn |-> "process_mod", mod_url |-> u, verify_downloads |-> v,
                cookie_header |-> c, game_id |-> g] :
                 u \in QueueUrls, v \in BOOLEAN, c \in {"", "sid=1"}, g \in {0, 1303}}
        \cup {[fn |-> "wait_for_new_completed_download", existing |-> d.existing,
                baseline |-> d.baseline, growing |-> d.growing] :
                 d \in {x \in PolledDirectories :
                            x.baseline \subseteq x.existing /\ x.growing \subseteq x.existing}}

PureInit ==
    /\ entry = NBF
    /\ settings = Settings(FALSE, FALSE, FALSE, 0)
    /\ RunInit
    /\ call \in Calls
    /\ result = NoResult

\* dedupe_links(links) is called.
CallDedupeLinks ==
    /\ call.fn = "dedupe_links"
    /\ result = NoResult
    /\ result' = [fn |-> call.fn, links |-> dedupe_links(call.links)]
    /\ UNCHANGED <<call, entry, settings, cookie_header, game_id, links, pc, idx,
                   run_data, downloaded_files, install_args, json_log, txt_log,
                   exit_code, pm, ret, listeners, files, growing, browser_file, hist>>

\* normalize_mod_target_url and parse_mod_target are called on two URLs.
CallParseModTarget ==
    /\ call.fn = "parse_mod_target"
    /\ result = NoResult
    /\ result' = [fn |-> call.fn,
                  canonical |-> [i \in 1..2 |-> normalize_mod_target_url(call.urls[i])],
                  target |-> [i \in 1..2 |-> parse_mod_target(call.urls[i])]]
    /\ UNCHANGED <<call, entry, settings, cookie_header, game_id, links, pc, idx,
                   run_data, downloaded_files, install_args, json_log, txt_log,
                   exit_code, pm, ret, listeners, files, growing, browser_file, hist>>

\* unique_path(path) is called on a directory.
CallUniquePath ==
    /\ call.fn = "unique_path"
    /\ result = NoResult
    /\ result' = [fn |-> call.fn, path |-> unique_path(call.path, call.existing)]
    /\ UNCHANGED <<call, entry, settings, cookie_header, game_id, links, pc, idx,
                   run_data, downloaded_files, install_args, json_log, txt_log,
                   exit_code, pm, ret, listeners, files, growing, browser_file, hist>>

\* A direct transfer saves into the directory its file name leads to from
\* downloads_dir, which holds call.existing.
CallDirectDownload ==
    /\ call.fn = "direct_download_to_folder_with_context"
    /\ result = NoResult
    /\ result' = [fn |-> call.fn, saved |-> DirectSave(call.name, call.existing),
                  dir |-> TargetDirectory(RunDirs.downloads, call.header),
                  transfer |-> DirectTransfer(call.name, call.existing, call.stream)]
    /\ UNCHANGED <<call, entry, settings, cookie_header, game_id, links, pc, idx,
                   run_data, downloaded_files, install_args, json_log, txt_log,
                   exit_code, pm, ret, listeners, files, growing, browser_file, hist>>

\* The listener saves a download into a directory.
CallOnDownload ==
    /\ call.fn = "on_download"
    /\ result = NoResult
    /\ result' = [fn |-> call.fn, saved |-> ListenerSave(call.name, call.existing)]
    /\ UNCHANGED <<call, entry, settings, cookie_header, game_id, links, pc, idx,
                   run_data, downloaded_files, install_args, json_log, txt_log,
                   exit_code, pm, ret, listeners, files, growing, browser_file, hist>>

\* One pass of wait_for_new_completed_download over a directory: the files
\* wait_until_file_is_stable accepts and the files the pass can return (none:
\* it sleeps and looks again, and returns None at its deadline).
CallWaitForDownload ==
    /\ call.fn = "wait_for_new_completed_download"
    /\ result = NoResult
    /\ result' = [fn |-> call.fn,
                  stable |-> {f \in call.existing :
                                 FileIsStable(f, call.existing, call.growing)},
                  completed |-> CompletedIn(call.existing, call.growing, call.baseline)]
    /\ UNCHANGED <<call, entry, settings, cookie_header, game_id, links, pc, idx,
                   run_data, downloaded_files, install_args, json_log, txt_log,
                   exit_code, pm, ret, listeners, files, growing, browser_file, hist>>

\* install_downloaded_archives is called on a list of paths.
CallInstall ==
    /\ call.fn = "install_downloaded_archives"
    /\ result = NoResult
    /\ result' = [fn |-> call.fn,
                  payload |-> install_downloaded_archives(call.paths, call.on_disk)]
    /\ UNCHANGED <<call, entry, settings, cookie_header, game_id, links, pc, idx,
                   run_data, downloaded_files, install_args, json_log, txt_log,
                   exit_code, pm, ret, listeners, files, growing, browser_file, hist>>

\* process_mod is entered: whether it tries the direct path (and sends the
\* request to the download-URL endpoint) or goes to the navigation.
CallProcessMod ==
    /\ call.fn = "process_mod"
    /\ result = NoResult
    /\ result' = [fn |-> call.fn,
                  direct |-> DirectConditionOf(call.mod_url, call.verify_downloads,
                                               call.cookie_header, call.game_id)]
    /\ UNCHANGED <<call, entry, settings, cookie_header, game_id, links, pc, idx,
                   run_data, downloaded_files, install_args, json_log, txt_log,
                   exit_code, pm, ret, listeners, files, growing, browser_file, hist>>

PureNext ==
    \/ CallDedupeLinks
    \/ CallParseModTarget
    \/ CallUniquePath
    \/ CallDirectDownload
    \/ CallOnDownload
    \/ CallWaitForDownload
    \/ CallInstall
    \/ CallProcessMod

SpecPure == PureInit /\ [][PureNext]_vars

\* ------------------------------------------------------------ properties
Results == run_data.results

\* The results so far and the item process_mod has just returned.
ItemsSoFar == {Results[i] : i \in DOMAIN Results} \cup (IF ret.status # "none" THEN {ret} ELSE {})

\* The file a result's reason names, as a path in the downloads directory
\* (NoArg when the reason names none).
ItemFile(r) == IF r.reason.arg.kind \in {"path", "name"} THEN PathArg(r.reason.arg.name) ELSE NoArg

\* The files of the ok items, in encounter order.
RECURSIVE OkFiles(_)
OkFiles(rs) ==
    IF rs = <<>> THEN <<>>
    ELSE LET r == rs[Len(rs)]
             before == OkFiles(SubSeq(rs, 1, Len(rs) - 1))
         IN IF r.status = "ok" /\ ItemFile(r) # NoArg THEN Append(before, ItemFile(r)) ELSE before

\* C1 (as claimed): every ok ItemResult process_mod returns embeds a file path
\* that find_download_path resolves.
C1_OkEmbedsResolvablePath ==
    \A r \in ItemsSoFar : r.status = "ok" => find_download_path(r.reason) # NoArg

\* C2 (as claimed): a completed auto_que run that is neither dry-run nor
\* skip-install hands the Install Stager exactly the files of its ok items, in
\* encounter order without repeats; a dry-run or skip-install run never calls
\* the Install Stager.
C2_InstallGetsOkFiles ==
    (pc = "done" /\ entry = AQ /\ hist.fatal_kind = None) =>
        IF settings.dry_run \/ settings.skip_install
        THEN install_args = <<>>
        ELSE install_args = <<Dedupe(OkFiles(Results))>>

\* C3: whenever process_mod has returned the listener it registered is removed:
\* no download listener is registered between two targets or before the next
\* registration, and never more than one at a time.
C3_ListenerRemovedOnReturn ==
    /\ listeners <= 1
    /\ pc \in {"append", "delay", "loop", "direct", "retry", "nav", "cookie", "install"}
          => listeners = 0

C3_Witness ==
    /\ pc = "append"
    /\ idx = 2
    /\ hist.registered = 1
    /\ ret.status = "partial"
    /\ Results[1].status = "ok"

\* C4 (as claimed): an interrupt raised while target k is resolved lets target
\* k finish: its result is appended, no later target starts, the marker is set.
C4_InterruptFinishesTarget ==
    (pc = "done" /\ hist.intr_at > 0) =>
        /\ Len(Results) = hist.intr_at
        /\ hist.started = hist.intr_at
        /\ run_data.fatal_error = INTERRUPTED_TEXT

\* C4 (amended): an interrupt raised in process_mod while target k is resolved
\* abandons target k: the results of targets 1..k-1 are kept, none is appended
\* for k, no later target starts, and fatal_error (with interrupted, in
\* nexus_browser_first) records the interrupt.
C4_InterruptAbandonsTarget ==
    (pc \in {"final", "done"} /\ hist.intr_at > 0) =>
        /\ Len(Results) = hist.intr_at - 1
        /\ \A i \in DOMAIN Results : Results[i].mod_url = links[i]
        /\ hist.started = hist.intr_at
        /\ hist.appended = hist.intr_at - 1
        /\ run_data.fatal_error = INTERRUPTED_TEXT
        /\ entry = NBF => run_data.interrupted

C4_Witness ==
    /\ pc = "done"
    /\ hist.intr_at = 2
    /\ Len(Results) = 1
    /\ listeners = 1

InterruptCode(e) == ReturnCode(e, OnKeyboardInterrupt(e, RunDataInit(settings)))

\* C6 (as claimed): a run ended by an unexpected exception returns a non-zero
\* code that differs from the code of an interrupted run, in both entry points.
C6_FatalCodeDistinct ==
    (pc = "done" /\ hist.fatal_kind = "exception") =>
        /\ exit_code # EXIT_OK
        /\ exit_code # InterruptCode(entry)

\* C7: a direct attempt that fails never ends the item: process_mod goes on to
\* the insecure retry or to navigation with nothing returned, a failed retry
\* goes on to navigation, and a fail result is only ever a navigation error.
C7_DirectFailureFallsThrough ==
    /\ [][(/\ pc \in {"direct", "retry"}
           /\ Len(hist'.direct_log) > Len(hist.direct_log)
           /\ Last(hist'.direct_log) # "ok")
          => (/\ ret' = NoItem
              /\ pc' \in {"retry", "nav"}
              /\ pc = "retry" => pc' = "nav"
              /\ run_data' = run_data)]_vars
    /\ [](\A r \in ItemsSoFar : r.status = "fail" => r.reason.head = <<"navigation_error", ":">>)

C7_Witness ==
    /\ pc = "nav"
    /\ hist.direct_log = <<SSL_ERROR, SSL_ERROR>>
    /\ ret = NoItem

\* C8: a target's page is loaded at most twice; when both attempts fail the
\* item is fail with a navigation_error reason, and the run goes on: a run
\* that ends without a fatal error has resolved every target of the queue.
C8_NavigationTwiceThenFail ==
    /\ hist.nav_attempts <= 2
    /\ \A r \in ItemsSoFar : r.status = "fail" => r.reason.head = <<"navigation_error", ":">>
    /\ ret.status = "fail" => hist.nav_attempts = 2
    /\ (ret.status \notin {"none", "fail"} /\ pc = "append") => hist.nav_attempts < 2
    /\ (pc \in {"install", "final", "done"} /\ hist.fatal_kind = None) =>
          /\ Len(Results) = Len(links)
          /\ \A i \in DOMAIN Results : Results[i].mod_url = links[i]

C8_Witness ==
    /\ pc = "done"
    /\ hist.fatal_kind = None
    /\ Len(Results) = 2
    /\ Results[1].status = "fail"
    /\ Results[2].status = "ok"

ClickPcs == {"slow1", "manual", "slow2", "poll"}

\* C9: in a dry run, once the mod page has loaded the item ends as dry_run:
\* nothing is clicked, no download listener is registered, and process_mod
\* never enters the click or poll steps.
C9_DryRunStopsBeforeClick ==
    /\ [](settings.dry_run =>
            /\ pc \notin ClickPcs
            /\ hist.clicks = {}
            /\ hist.registered = 0
            /\ listeners = 0)
    /\ [](ret.status = "dry_run" => settings.dry_run /\ ret.reason = R_navigation_only)
    /\ [][(settings.dry_run /\ pc = "cookie" /\ pc' \notin {"cookie", "final"})
          => (pc' = "append" /\ ret'.status = "dry_run")]_vars

C9_Witness ==
    /\ pc = "append"
    /\ ret.status = "dry_run"
    /\ settings.verify_downloads
    /\ idx = 2
    /\ Results[1].status = "dry_run"

\* C10: targets are resolved one at a time in queue order: the i-th result is
\* the result of the i-th target and carries index i, a target is resolved only
\* after the results of all earlier targets are appended, and there are never
\* more results than queued targets.
C10_SequentialInOrder ==
    /\ Len(Results) <= run_data.queue_count
    /\ pc # "extract" => run_data.queue_count = Len(links)
    /\ \A i \in DOMAIN Results :
         /\ Results[i].index = i
         /\ Results[i].mod_url = links[i]
    /\ pc \in PmPcs \cup {"append"} =>
         /\ idx = Len(Results) + 1
         /\ hist.started = idx
         /\ hist.appended = idx - 1
    /\ hist.started \in {Len(Results), Len(Results) + 1}

C10_Witness ==
    /\ pc = "poll"
    /\ idx = 2
    /\ Len(Results) = 1
    /\ Results[1].index = 1
    /\ Results[1].mod_url = links[1]
    /\ links[1] # links[2]

Min(a, b) == IF a < b THEN a ELSE b

\* C12: with a cap m > 0 the queue is the first min(m, n) extracted links in
\* their order, with cap 0 it is the whole extracted list, and queue_count is
\* the length of the queue.
C12_CapKeepsFirstLinks ==
    hist.strategy # None =>
        LET m == settings.max_mods
            n == Len(hist.extracted)
        IN /\ m > 0 => (/\ Len(links) = Min(m, n)
                        /\ \A i \in 1..Len(links) : links[i] = hist.extracted[i])
           /\ m = 0 => links = hist.extracted
           /\ run_data.queue_count = Len(links)

C12_Witness ==
    /\ pc = "done"
    /\ settings.max_mods = 1
    /\ Len(hist.extracted) = 2
    /\ links = <<hist.extracted[1]>>
    /\ run_data.queue_count = 1
    /\ Len(Results) = 1

ARTIFACTS == {"screenshot", "html", "meta"}

\* C13: when both strategies gave no link, queue_count is 0, process_mod is
\* never entered, and the diagnostics hold for each of screenshot, html and
\* meta exactly one of the key and its _error key, in the report and in the
\* persisted JSON log.
C13_ZeroQueueDiagnostics ==
    (hist.strategy # None /\ hist.extracted = <<>>) =>
        /\ run_data.queue_count = 0
        /\ hist.started = 0
        /\ Results = <<>>
        /\ pc \notin PmPcs \cup {"append", "delay"}
        /\ \A k \in ARTIFACTS :
             (k \in run_data.zero_queue_artifacts) # (k \o "_error" \in run_data.zero_queue_artifacts)
        /\ Cardinality(run_data.zero_queue_artifacts) = 3
        /\ pc = "done" => json_log[1].zero_queue_artifacts = run_data.zero_queue_artifacts

C13_Witness ==
    /\ pc = "done"
    /\ hist.strategy = "dom_fallback"
    /\ hist.extracted = <<>>
    /\ json_log[1].queue_count = 0
    /\ json_log[1].zero_queue_artifacts = {"screenshot_error", "html", "meta"}

\* C14: the DOM scrape runs exactly when network interception gave no link;
\* when it gave one, the queue is made of the network links only.
C14_DomOnlyWhenNetworkEmpty ==
    hist.strategy # None =>
        /\ run_data.dom_fallback <=> hist.net = <<>>
        /\ hist.strategy = "dom_fallback" <=> hist.net = <<>>
        /\ hist.net # <<>> =>
             /\ hist.extracted = hist.net
             /\ \A i \in 1..Len(links) : links[i] = hist.net[i]

C14_Witness ==
    /\ pc = "done"
    /\ hist.strategy = "network_graphql"
    /\ ~run_data.dom_fallback
    /\ Len(hist.net) = 2
    /\ links = hist.net
    /\ Len(Results) = 2

\* The canonical forms of the links of a list that normalize, in list order.
Canonicals(ls) ==
    LET accepted == SelectSeq(ls, LAMBDA u : normalize_mod_target_url(u) # NoUrl)
    IN [i \in 1..Len(accepted) |-> normalize_mod_target_url(accepted[i])]

\* The position of the first occurrence of x in s.
FirstAt(s, x) == CHOOSE i \in 1..Len(s) : s[i] = x /\ \A j \in 1..(i - 1) : s[j] # x

\* C15: dedupe_links returns canonical forms only, no two of them equal, one
\* for every link of its input that normalizes and none for the others, in the
\* order of their first occurrences.
C15_DedupeDistinctInOrder ==
    (call.fn = "dedupe_links" /\ result # NoResult) =>
        LET out == result.links
            canon == Canonicals(call.links)
        IN /\ \A i, j \in 1..Len(out) : out[i] = out[j] => i = j
           /\ \A i \in 1..Len(out) : normalize_mod_target_url(out[i]) = out[i]
           /\ {out[i] : i \in 1..Len(out)} = {canon[i] : i \in 1..Len(canon)}
           /\ \A i, j \in 1..Len(out) :
                i < j => FirstAt(canon, out[i]) < FirstAt(canon, out[j])

C15_Witness ==
    /\ call.fn = "dedupe_links"
    /\ result # NoResult
    /\ Len(call.links) = 3
    /\ call.links[1] = Target(10, 0)
    /\ call.links[2].scheme = "ftp"
    /\ call.links[3] # call.links[1]
    /\ normalize_mod_target_url(call.links[3]) = call.links[1]
    /\ result.links = <<Target(10, 0)>>

\* C16 (as claimed): two URLs that normalize have equal canonical forms
\* exactly when parse_mod_target gives them equal (domain, mod_id, file_id).
C16_CanonicalIffSameTarget ==
    (call.fn = "parse_mod_target" /\ result # NoResult
        /\ result.canonical[1] # NoUrl /\ result.canonical[2] # NoUrl) =>
        (result.canonical[1] = result.canonical[2] <=> result.target[1] = result.target[2])

\* C17 (as claimed): an exceeded per-call timeout is a local failure: it is
\* never the fatal error of the run, and a run in which target navigations
\* or direct transfers timed out still resolves its whole queue unless
\* something else ends it.
C17_TimeoutIsLocal ==
    /\ run_data.fatal_error \notin TIMEOUT_ERRORS
    /\ (pc = "done" /\ hist.fatal_kind = None) => Len(Results) = Len(links)

\* The failures met so far while the current target is resolved by the click
\* flow: the errors of the direct attempts that made it fall back and the
\* listener's save errors.
FailuresSeen ==
    {ErrArg(hist.direct_log[i]) : i \in {j \in DOMAIN hist.direct_log : hist.direct_log[j] # "ok"}}
        \cup {ErrArg(pm.download_errors[i]) : i \in DOMAIN pm.download_errors}

\* A reason tells of a failure: it carries the error, or it is the
\* insecure-SSL reason and the failure is the certificate error.
Mentions(reason, failure) ==
    \/ reason.arg = failure
    \/ /\ failure = ErrArg(SSL_ERROR)
       /\ reason.head = <<"direct_download", "_insecure_ssl", ":">>

\* C18 (as claimed): no failure is dropped: the reason process_mod returns for
\* an item (all that the logs get of it) tells of every failure met while
\* the item fell back to the click flow and was resolved there.
C18_EveryFailureInReason ==
    [][(pc \notin {"direct", "retry"} /\ ret = NoItem /\ ret' # NoItem)
       => \A f \in FailuresSeen : Mentions(ret'.reason, f)]_vars

\* The count a text summary shows for a status.
ShownCount(txt, st) ==
    CASE st = "ok" -> txt.ok
      [] st = "partial" -> txt.partial
      [] st = "fallback_needed" -> txt.fallback_needed
      [] st = "fail" -> txt.fail
      [] st = "dry_run" -> txt.dry_run

\* C19: every persisted text summary shows, for each of the five statuses, the
\* number of results with that status in the report persisted with it; every
\* result has one of the five statuses, so the counts add up to the number
\* of results, which is queue_count when the run ended without a fatal error.
C19_SummaryCountsMatch ==
    /\ \A r \in ItemsSoFar : r.status \in STATUSES
    /\ txt_log # <<>> =>
         LET txt == txt_log[1]
             rs == json_log[1].results
         IN /\ \A st \in STATUSES :
                 ShownCount(txt, st) = Cardinality({i \in DOMAIN rs : rs[i].status = st})
            /\ txt.ok + txt.partial + txt.fallback_needed + txt.fail + txt.dry_run = Len(rs)
            /\ Len(rs) <= hist.appended
            /\ txt.queue_count = json_log[1].queue_count
            /\ (pc = "done" /\ hist.fatal_kind = None) =>
                  (Len(rs) = hist.appended /\ Len(rs) = txt.queue_count)

C19_Witness ==
    /\ pc = "done"
    /\ hist.fatal_kind = None
    /\ txt_log[1].queue_count = 2
    /\ txt_log[1].ok = 1
    /\ txt_log[1].fallback_needed = 1
    /\ txt_log[1].fail = 0

\* The candidate "stem (n)suffix" of a path.
Candidate(path, n) == [path EXCEPT !.n = n]

\* C20 (as claimed): unique_path returns the path when it is free, else the
\* free candidate with the smallest n >= 1, and never an existing path; no
\* save by the listener or by the direct path writes over a file that was in
\* the directory before the save.
C20_NoExistingPathOverwritten ==
    /\ (call.fn = "unique_path" /\ result # NoResult) =>
          /\ result.path \notin call.existing
          /\ call.path \notin call.existing => result.path = call.path
          /\ (call.path \in call.existing /\ result.path # NoPath) =>
                \E n \in 1..(UNIQUE_LIMIT - 1) :
                    /\ result.path = Candidate(call.path, n)
                    /\ \A k \in 1..(n - 1) : Candidate(call.path, k) \in call.existing
    /\ (call.fn \in {"direct_download_to_folder_with_context", "on_download"}
           /\ result # NoResult) =>
          /\ result.saved.target \notin call.existing
          /\ result.saved.overwritten = {}

\* C21: a file with an in-progress extension (.crdownload, .part, .tmp) is
\* never accepted by wait_until_file_is_stable nor returned by
\* wait_for_new_completed_download, whether its size changes or not and
\* whether it is new or not; on a directory holding only such files the pass
\* returns nothing.
C21_TempFileNeverCompleted ==
    (call.fn = "wait_for_new_completed_download" /\ result # NoResult) =>
        /\ \A f \in call.existing :
              Suffix(f) \in TEMP_DOWNLOAD_EXTENSIONS =>
                 (f \notin result.stable /\ f \notin result.completed)
        /\ (\A f \in call.existing : Suffix(f) \in TEMP_DOWNLOAD_EXTENSIONS) =>
              result.completed = {}

C21_Witness ==
    /\ call.fn = "wait_for_new_completed_download"
    /\ result # NoResult
    /\ call.existing = {Name("report", 0, "", ".crdownload"), Name("mod", 0, ".zip", ".part")}
    /\ call.baseline = {}
    /\ call.growing = {}
    /\ result.completed = {}

\* C22 (as claimed): whatever the download server answers, a direct transfer
\* of process_mod creates, writes and renames its files in the downloads
\* directory, never in the install or the log directory.
C22_WritesOnlyInDownloads ==
    (call.fn = "direct_download_to_folder_with_context" /\ result # NoResult) =>
        /\ result.dir = RunDirs.downloads
        /\ result.dir \notin {RunDirs.install, RunDirs.logs}

\* C23: install_downloaded_archives goes through the distinct input paths in
\* the order of their first occurrence; a missing archive and one that no
\* extractor unpacks are marked failed and the next archive is processed; when
\* the function returns, the items are those paths in that order, each
\* installed exactly when its archive was there and unpacked, and installed +
\* failed is the number of distinct paths. Missing and broken archives alone
\* never keep it from returning.
C23_InstallContinuesAfterFailure ==
    (call.fn = "install_downloaded_archives" /\ result # NoResult) =>
        LET given == {call.paths[i] : i \in DOMAIN call.paths}
            out == result.payload
        IN /\ (\A a \in Archives : call.on_disk[a] # "uncopyable") => ~out.raised
           /\ ~out.raised =>
                 /\ {out.results[i].archive : i \in DOMAIN out.results} = given
                 /\ Len(out.results) = Cardinality(given)
                 /\ out.installed + out.failed = Cardinality(given)
                 /\ \A i \in DOMAIN out.results :
                       /\ \A j \in 1..(i - 1) :
                             FirstAt(call.paths, out.results[j].archive)
                                < FirstAt(call.paths, out.results[i].archive)
                       /\ out.results[i].status =
                             IF call.on_disk[out.results[i].archive] = "good"
                             THEN "installed" ELSE "failed"
                 /\ out.installed =
                       Cardinality({i \in DOMAIN out.results : out.results[i].status = "installed"})

C23_Witness ==
    /\ call.fn = "install_downloaded_archives"
    /\ result # NoResult
    /\ call.paths = <<"a.zip", "b.zip", "a.zip">>
    /\ call.on_disk["a.zip"] = "missing"
    /\ call.on_disk["b.zip"] = "good"
    /\ ~result.payload.raised
    /\ result.payload.failed = 1
    /\ result.payload.installed = 1
    /\ result.payload.results[2].status = "installed"

\* C24 (as claimed): process_mod tries the direct path exactly when
\* verification is enabled, the cookie header is non-empty, the game id is
\* positive and the target carries a positive file id.
C24_DirectIffAllKnown ==
    (call.fn = "process_mod" /\ result # NoResult) =>
        (result.direct <=>
            /\ call.verify_downloads
            /\ call.cookie_header # ""
            /\ call.game_id > 0
            /\ QueryFileId(call.mod_url) > 0)

C26_DirectSuccessEndsItem ==
    (hist.direct_log # <<>> /\ Last(hist.direct_log) = "ok") =>
        /\ pc = "append"
        /\ ret # NoItem
        /\ ret.reason.arg.name \in files
        /\ IF Suffix(ret.reason.arg.name) \in ARCHIVE_EXTENSIONS
           THEN /\ ret.status = "ok"
                /\ ret.reason.head = IF Len(hist.direct_log) = 2
                                     THEN <<"direct_download", "_insecure_ssl", ":">>
                                     ELSE <<"direct_download", ":">>
           ELSE /\ ret.status = "partial"
                /\ ret.reason.head = <<"direct_download", "_suspicious", ":">>
        /\ hist.nav_attempts = 0
        /\ hist.registered = 0
        /\ hist.clicks = {}
        /\ listeners = 0

C26_Witness ==
    /\ hist.direct_log = <<SSL_ERROR, "ok">>
    /\ ret # NoItem
    /\ ret.status = "partial"
    /\ ret.reason = R_direct_suspicious(Name("mod", 0, ".exe", ""))

\* C27 (as claimed): in the course of a direct transfer no file with the
\* final name holds a part of the body only, and a transfer that raised has
\* created no file with the final name; one that returned has left the final
\* name and no .part file of its own.
C27_FinalNameNeverPartial ==
    (call.fn = "direct_download_to_folder_with_context" /\ result # NoResult) =>
        LET t == result.transfer
        IN /\ \A i \in DOMAIN t.steps : t.target \notin t.steps[i].partial
           /\ t.raised => t.target \notin Last(t.steps).files
           /\ ~t.raised => (/\ t.target \in Last(t.steps).files
                            /\ PartName(t.target) \notin Last(t.steps).files)

\* C28: in the click sequence the slow/free control is searched first, the
\* manual control only when that search clicked nothing, and the slow/free
\* control again only after a manual click; an item whose click sequence
\* ended is fallback_needed exactly when nothing was clicked, and partial
\* with download_confirmation_button_not_found exactly when only the manual
\* control was; the completion loop and every result of it come after a
\* slow/free click.
C28_ClickSequence ==
    /\ [](/\ pc = "slow1" => hist.clicks = {}
          /\ pc = "manual" => hist.clicks = {}
          /\ pc = "slow2" => hist.clicks = {"manual"}
          /\ pc = "poll" => "slow" \in hist.clicks
          /\ ret # NoItem =>
                /\ ret.status = "fallback_needed" <=> (hist.registered = 1 /\ hist.clicks = {})
                /\ ret.status = "fallback_needed" <=> ret.reason = R_manual_button_not_found
                /\ ret.reason = R_confirmation_not_found <=> hist.clicks = {"manual"}
                /\ ret.reason = R_confirmation_not_found => ret.status = "partial"
                /\ ret.reason.head \in {R_download_saved(NoPath).head, R_file_detected(NoPath).head,
                                         R_suspicious_filename(NoPath).head, R_save_error("").head,
                                         R_signal_not_detected.head, R_manual_and_slow_clicked.head}
                      => "slow" \in hist.clicks)
    /\ [][/\ (pc' = "manual" /\ pc # "manual") => pc = "slow1"
          /\ (pc' = "slow2" /\ pc # "slow2") => pc = "manual"
          /\ (pc' = "poll" /\ pc # "poll") => pc \in {"slow1", "slow2"}
          /\ (pc' = "slow1" /\ pc # "slow1") => pc = "cookie"]_vars

C28_Witness ==
    /\ ret # NoItem
    /\ ret.status = "partial"
    /\ ret.reason = R_confirmation_not_found
    /\ hist.clicks = {"manual"}

\* C29: an iteration of the completion loop that starts with a saved path
\* recorded ends the item ok with the most recently saved path and removes the
\* listener, whatever names the events had, whatever save errors were
\* recorded, whether the retry was used and whether the interstitial text is
\* visible.
C29_SavedFileHasPriority ==
    [][(PollIteration /\ pm.saved_downloads # <<>>) =>
          /\ pc' = "append"
          /\ ret'.status = "ok"
          /\ ret'.reason = R_download_saved(Last(pm.saved_downloads))
          /\ listeners' = 0]_vars

C29_Witness ==
    /\ ret # NoItem
    /\ ret.status = "ok"
    /\ ret.reason = R_download_saved(Name("0a1b", 0, "", ""))
    /\ hist.events = 2
    /\ hist.retries = 1
    /\ files = {Name("0a1b", 0, "", "")}

\* C30 (as claimed): the first iteration of the completion loop that finds a
\* suspicious event name and no saved file clicks the manual link and goes on
\* polling; the item is partial with suspicious_download_filename only at a
\* later such iteration, after that retry.
C30_SuspiciousNameRetriedFirst ==
    /\ [][(/\ PollIteration
           /\ pm.saved_downloads = <<>>
           /\ pm.seen_downloads # <<>>
           /\ ~is_good_archive_name(Last(pm.seen_downloads))
           /\ hist.observed = 0)
          => (/\ pc' = "poll"
              /\ ret' = NoItem
              /\ hist'.retries = hist.retries + 1)]_vars
    /\ [](ret # NoItem /\ ret.reason.head = <<"suspicious_download_filename", ":">>
            => (ret.status = "partial" /\ hist.observed >= 2))

\* C31: the manual-link retry is clicked at most once per item, whichever of
\* its two triggers used it; an iteration that starts with the retry used and
\* neither a saved file nor a suspicious event name clicks nothing, whether or
\* not the interstitial text is visible, and goes to the file detection: ok
\* with a detected file when there is one, else another iteration.
C31_ManualRetryOnce ==
    /\ [](/\ hist.retries <= 1
          /\ pc = "poll" => (pm.manual_retry_used <=> hist.retries = 1))
    /\ [][(/\ PollIteration
           /\ pm.manual_retry_used
           /\ pm.saved_downloads = <<>>
           /\ ~(pm.seen_downloads # <<>> /\ ~is_good_archive_name(Last(pm.seen_downloads))))
          => (/\ hist'.retries = hist.retries
              /\ IF NewCompletedDownloads(pm.baseline) # {}
                 THEN /\ ret'.status = "ok"
                      /\ ret'.reason.head = <<"download_file_detected", ":">>
                 ELSE /\ pc' = "poll"
                      /\ ret' = NoItem)]_vars

C31_Witness ==
    /\ ret # NoItem
    /\ ret.reason.head = <<"download_file_detected", ":">>
    /\ hist.retries = 1
    /\ hist.events = 0

\* C32: process_mod returns download_file_detected only with downloads
\* verified, as ok, and only for a file of the downloads directory that was
\* not in the baseline taken before the click sequence, has no in-progress
\* extension and kept its size over the samples.
C32_DetectedFileIsNewAndStable ==
    [][(ret = NoItem /\ ret' # NoItem
          /\ ret'.reason.head = <<"download_file_detected", ":">>)
       => LET f == ret'.reason.arg.name
          IN /\ settings.verify_downloads
             /\ ret'.status = "ok"
             /\ f \in files
             /\ f \notin pm.baseline
             /\ Suffix(f) \notin TEMP_DOWNLOAD_EXTENSIONS
             /\ f \notin growing]_vars

C32_Witness ==
    /\ ret # NoItem
    /\ ret.reason = R_file_detected(Name("mod", 1, ".zip", ""))
    /\ idx = 2
    /\ files = {Name("mod", 0, ".zip", ""), Name("mod", 1, ".zip", "")}
    /\ Results[1].reason = R_direct(Name("mod", 0, ".zip", ""))

\* C33: when the completion loop is left at its deadline the item is partial,
\* never ok or fail: with download_save_error and the last recorded save
\* error when one was recorded, else with
\* download_signal_not_detected_in_time; the listener is removed; and these
\* two reasons are given at the deadline only.
C33_DeadlineGivesPartial ==
    /\ [][PollTimeout =>
            /\ ret'.status = "partial"
            /\ ret'.reason = IF pm.download_errors # <<>>
                             THEN R_save_error(Last(pm.download_errors))
                             ELSE R_signal_not_detected
            /\ listeners' = 0]_vars
    /\ [][(ret = NoItem /\ ret' # NoItem
             /\ ret'.reason.head \in {R_save_error("").head, R_signal_not_detected.head})
          => (pm.polled /\ ret'.status = "partial")]_vars

C33_Witness ==
    /\ ret # NoItem
    /\ ret.status = "partial"
    /\ ret.reason = R_save_error(SaveError(Name("mod", 0, ".zip", ""), "cancelled"))
    /\ hist.events = 2
    /\ files = {}

\* C34: with verification disabled process_mod never tries the direct path,
\* takes no baseline of the downloads directory and never enters the
\* completion loop; an item whose click sequence clicked a slow/free control
\* is ok with manual_and_slow_clicked at once, the listener removed; and that
\* reason is given with verification disabled only.
C34_UnverifiedClickIsOk ==
    /\ ~settings.verify_downloads =>
          /\ pc \notin {"direct", "retry", "poll"}
          /\ hist.direct_log = <<>>
          /\ pm.baseline = {}
          /\ (pc \in PmPcs \cup {"append"} /\ "slow" \in hist.clicks) =>
                /\ pc = "append"
                /\ ret.status = "ok"
                /\ ret.reason = R_manual_and_slow_clicked
                /\ listeners = 0
    /\ (ret # NoItem /\ ret.reason = R_manual_and_slow_clicked) =>
          (~settings.verify_downloads /\ "slow" \in hist.clicks)

C34_Witness ==
    /\ ~settings.verify_downloads
    /\ ret # NoItem
    /\ ret.reason = R_manual_and_slow_clicked
    /\ hist.clicks = {"manual", "slow"}
    /\ cookie_header # ""
    /\ game_id # 0
    /\ links[idx] = Target(20, 5)

IsPrefix(s, t) == Len(s) <= Len(t) /\ SubSeq(t, 1, Len(s)) = s

\* The three lists on_download writes.
ListenerLists(p) == <<p.seen_downloads, p.saved_downloads, p.download_errors>>

C35_WitnessTwo ==
    /\ pc = "poll"
    /\ Len(pm.seen_downloads) = 2
    /\ pm.seen_downloads[1] # pm.seen_downloads[2]

C38_DryRunDownloadsNothing ==
    settings.dry_run =>
        /\ files = {}
        /\ ret # NoItem => ret.status \in {"dry_run", "fail"}
        /\ \A i \in DOMAIN Results : Results[i].status \in {"dry_run", "fail"}

\* C39: with verification enabled an item is ok only with a file whose name
\* ends with .zip, .7z or .rar, whichever path gave the file, and only files
\* of such names are handed to the Install Stager.
C39_OkOnlyForArchives ==
    settings.verify_downloads =>
        /\ \A r \in ItemsSoFar :
             r.status = "ok" => (ItemFile(r) # NoArg /\ is_good_archive_name(ItemFile(r).name))
        /\ \A i \in DOMAIN install_args : \A j \in DOMAIN install_args[i] :
             is_good_archive_name(install_args[i][j].name)

\* C40: once process_mod is left, by a return or by the exception of a
\* browser operation that raised after the listener was registered (the
\* user's interrupt left aside), no download listener is registered on the
\* page.
C40_NoListenerAfterExit ==
    (pc \notin PmPcs /\ hist.fatal_kind # "interrupt") => listeners = 0

====
